---- MODULE Spec2Model ----
(***************************************************************************)
(* Model of code_base/rnn_layers.py: the vanilla RNN step and sequence     *)
(* functions, the masked average layer and the temporal affine layer.      *)
(*                                                                         *)
(* Arrays are sequences: a vector is a sequence of numbers, a matrix a     *)
(* sequence of rows, an (N,T,D) tensor a sequence of N matrices.  Python   *)
(* indices are 0-based, sequences 1-based: index k of the code is k+1      *)
(* here, and the loop variable timestep keeps the code's 0-based value.    *)
(* Numbers are integers with exact ring arithmetic; true division is exact *)
(* rational division (see TrueDiv).                                        *)
(***************************************************************************)
EXTENDS Integers, Sequences, FiniteSets, TLC

\* ------------------------------------------------------------- bounds
\* Largest number of timesteps T of any tensor the model draws.
MaxT == 2

\* Index sets of the batch axis (N), the input axis (D) and the hidden axis (H).
Batch == {1, 2}
DIn == {1}
Hid == {1}
\* Values the RNN inputs are drawn from.
XVals == {0, 1}
H0Vals == {0, 1}
WxVals == {1}
WhVals == {-1, 1}
BVals == {0}
DhVals == {0, 1}

NN == Cardinality(Batch)

\* ------------------------------------------------------------- numpy helpers
\* np.dot of an (n,k) matrix and a (k,m) matrix.
RECURSIVE SumTo(_, _)
SumTo(f, n) == IF n = 0 THEN 0 ELSE f[n] + SumTo(f, n - 1)

Dot(A, B) ==
    [i \in 1..Len(A) |->
        [j \in 1..Len(B[1]) |->
            SumTo([k \in 1..Len(B) |-> A[i][k] * B[k][j]], Len(B))]]

\* np.transpose of a matrix with at least one row.
Transpose(A) == [j \in 1..Len(A[1]) |-> [i \in 1..Len(A) |-> A[i][j]]]

\* Elementwise sum of two matrices of one shape.
MatAdd(A, B) == [i \in 1..Len(A) |-> [j \in 1..Len(A[i]) |-> A[i][j] + B[i][j]]]

\* Elementwise sum of two vectors of one shape.
VecAdd(u, v) == [j \in 1..Len(u) |-> u[j] + v[j]]

\* Broadcasting addition of a vector over the last axis of a matrix.
AddBias(A, bias) == [i \in 1..Len(A) |-> [j \in 1..Len(A[i]) |-> A[i][j] + bias[j]]]

\* np.sum(A, axis = 0) of a matrix with at least one row: the column sums.
SumAxis0(A) ==
    [j \in 1..Len(A[1]) |-> SumTo([i \in 1..Len(A) |-> A[i][j]], Len(A))]

\* np.tanh.  tanh is odd, increasing, 0 at 0 and bounded by 1; over the
\* integers that is saturation at -1 and 1.
Tanh(z) == IF z > 0 THEN 1 ELSE IF z < 0 THEN -1 ELSE 0

\* a[:, timestep, :] of an (N,T,K) tensor, timestep 0-based.
Slice(a, timestep) == [i \in 1..Len(a) |-> a[i][timestep + 1]]

\* a.shape[1] of an (N,T,K) tensor.
Shape1(a) == Len(a[1])

\* np.transpose(l, [1,0,2]) of a non-empty list l of T matrices (N,K): the
\* (N,T,K) tensor with out[i][t] = l[t][i].
Transpose102(l) == [i \in 1..Len(l[1]) |-> [t \in 1..Len(l) |-> l[t][i]]]

\* list.reverse().
Reverse(l) == [k \in 1..Len(l) |-> l[Len(l) + 1 - k]]

\* A local name that is not bound yet.
Unbound == <<>>

\* ------------------------------------------------------------- rnn step
rnn_step_forward(xt, prev, wx, wh, bias) ==
    LET z == AddBias(MatAdd(Dot(xt, wx), Dot(prev, wh)), bias)
        next_h == [i \in 1..Len(z) |-> [j \in 1..Len(z[i]) |-> Tanh(z[i][j])]]
    IN  [next_h |-> next_h,
         cache |-> [x |-> xt, prev_h |-> prev, next_h |-> next_h,
                    Wh |-> wh, Wx |-> wx]]

rnn_step_backward(dnext_h, c) ==
    LET de_dz == [i \in 1..Len(dnext_h) |->
                    [j \in 1..Len(dnext_h[i]) |->
                        dnext_h[i][j] * (1 - c.next_h[i][j] * c.next_h[i][j])]]
    IN  [dx |-> Dot(de_dz, Transpose(c.Wx)),
         dprev_h |-> Dot(de_dz, Transpose(c.Wh)),
         dWx |-> Dot(Transpose(c.x), de_dz),
         dWh |-> Dot(Transpose(c.prev_h), de_dz),
         db |-> SumAxis0(de_dz)]

\* ------------------------------------------------------------- state
VARIABLES
    pc,        \* where the caller is: idle, forward, forward_done, backward, backward_done, error
    err,       \* the exception raised, "" when none
    x, h0, Wx, Wh, b,      \* arguments of rnn_forward
    timestep,  \* loop variable of the running loop (0-based)
    prev_h,    \* rnn_forward's prev_h
    h,         \* rnn_forward's list h, then the returned array
    cache,     \* rnn_forward's list cache
    dh,        \* argument of rnn_backward
    dx, dh0, dWx, dWh, db, \* locals of rnn_backward, returned at the end
    calls      \* the rnn_step_backward calls made so far: timestep, argument, result

rnnVars == <<pc, err, x, h0, Wx, Wh, b, timestep, prev_h, h, cache, dh,
             dx, dh0, dWx, dWh, db, calls>>

VARIABLES
    apc,       \* where the caller of the average layer is: idle, start, forward_done, backward_done
    hi, mask,  \* arguments of average_forward
    ho,        \* average_forward's result
    avgCache,  \* the cache average_forward returns: mask and count
    dho,       \* argument of average_backward
    dhi        \* average_backward's result

avgVars == <<apc, hi, mask, ho, avgCache, dho, dhi>>

VARIABLES
    tpc,       \* where the caller of the temporal affine layer is: idle, start, forward_done, backward_done
    ta_x, ta_w, ta_b,      \* arguments x, w, b of temporal_affine_forward
    ta_out,    \* temporal_affine_forward's out
    ta_cache,  \* the cache temporal_affine_forward returns: x, w, b, out
    ta_dout,   \* argument dout of temporal_affine_backward
    ta_dx, ta_dw, ta_db    \* temporal_affine_backward's results

affVars == <<tpc, ta_x, ta_w, ta_b, ta_out, ta_cache, ta_dout, ta_dx, ta_dw, ta_db>>

vars == <<rnnVars, avgVars, affVars>>

\* A layer that no call is made to.
IdleRnn ==
    /\ pc = "idle" /\ err = ""
    /\ x = Unbound /\ h0 = Unbound /\ Wx = Unbound /\ Wh = Unbound /\ b = Unbound
    /\ timestep = 0 /\ prev_h = Unbound /\ h = Unbound /\ cache = Unbound
    /\ dh = Unbound /\ dx = Unbound /\ dh0 = Unbound /\ dWx = Unbound
    /\ dWh = Unbound /\ db = Unbound /\ calls = Unbound

IdleAvg ==
    /\ apc = "idle"
    /\ hi = Unbound /\ mask = Unbound /\ ho = Unbound /\ avgCache = Unbound
    /\ dho = Unbound /\ dhi = Unbound

IdleAff ==
    /\ tpc = "idle"
    /\ ta_x = Unbound /\ ta_w = Unbound /\ ta_b = Unbound /\ ta_out = Unbound
    /\ ta_cache = Unbound /\ ta_dout = Unbound /\ ta_dx = Unbound
    /\ ta_dw = Unbound /\ ta_db = Unbound

Tensor(n, t, k, S) == [1..n -> [1..t -> [1..k -> S]]]
Matrix(n, k, S) == [1..n -> [1..k -> S]]

\* ------------------------------------------------------------- rnn_forward
\* rnn_forward_body with prev_h never updated: every step starts from the
\* state it was given first.
rnn_forward_body_stale(xArg, wx, wh, bias, t, prev) ==
    LET r == rnn_step_forward(Slice(xArg, t), prev, wx, wh, bias)
    IN  [prev_h |-> prev, cache_current |-> r.cache, h_current |-> r.next_h]

\* One iteration of rnn_forward's loop.
rnn_forward_body(xArg, wx, wh, bias, t, prev) ==
    LET r == rnn_step_forward(Slice(xArg, t), prev, wx, wh, bias)
    IN  [prev_h |-> r.cache.next_h, cache_current |-> r.cache,
         h_current |-> r.next_h]

InitRnn ==
    /\ pc = "forward"
    /\ err = ""
    /\ \E T \in 0..MaxT : x \in Tensor(NN, T, Cardinality(DIn), XVals)
    /\ h0 \in Matrix(NN, Cardinality(Hid), H0Vals)
    /\ Wx \in Matrix(Cardinality(DIn), Cardinality(Hid), WxVals)
    /\ Wh \in Matrix(Cardinality(Hid), Cardinality(Hid), WhVals)
    /\ b \in [1..Cardinality(Hid) -> BVals]
    /\ timestep = 0
    /\ prev_h = h0
    /\ h = <<>>
    /\ cache = <<>>
    /\ dh = Unbound
    /\ dx = Unbound /\ dh0 = Unbound /\ dWx = Unbound /\ dWh = Unbound
    /\ db = Unbound
    /\ calls = <<>>
    /\ IdleAvg /\ IdleAff

ForwardStep ==
    /\ pc = "forward"
    /\ timestep < Shape1(x)
    /\ LET r == rnn_forward_body(x, Wx, Wh, b, timestep, prev_h)
       IN  /\ prev_h' = r.prev_h
           /\ cache' = Append(cache, r.cache_current)
           /\ h' = Append(h, r.h_current)
    /\ timestep' = timestep + 1
    /\ UNCHANGED <<pc, err, x, h0, Wx, Wh, b, dh, dx, dh0, dWx, dWh, db, calls>>
    /\ UNCHANGED <<avgVars, affVars>>

\* The end of rnn_forward: np.transpose(h, [1,0,2]) of an empty list is a
\* 1-d array and raises ValueError (axes don't match array).
rnn_forward_ret(l) == IF l = <<>> THEN Unbound ELSE Transpose102(l)

ForwardReturn ==
    /\ pc = "forward"
    /\ timestep = Shape1(x)
    /\ IF h = <<>>
         THEN pc' = "error" /\ err' = "ValueError" /\ h' = h
         ELSE pc' = "forward_done" /\ err' = err /\ h' = rnn_forward_ret(h)
    /\ UNCHANGED <<x, h0, Wx, Wh, b, timestep, prev_h, cache, dh,
                   dx, dh0, dWx, dWh, db, calls>>
    /\ UNCHANGED <<avgVars, affVars>>

\* ------------------------------------------------------------- rnn_backward
\* The caller hands rnn_backward an upstream gradient dh of shape (N,T',H)
\* and the cache list rnn_forward returned; nothing ties T' to the list.
BackwardCall ==
    /\ pc = "forward_done"
    /\ \E T \in 0..MaxT : dh' \in Tensor(NN, T, Cardinality(Hid), DhVals)
    /\ dx' = <<>>
    /\ timestep' = Shape1(dh') - 1
    /\ pc' = "backward"
    /\ UNCHANGED <<err, x, h0, Wx, Wh, b, prev_h, h, cache,
                   dh0, dWx, dWh, db, calls>>
    /\ UNCHANGED <<avgVars, affVars>>

\* rnn_backward_arg without the gradient of the next timestep.
rnn_backward_arg_nocarry(dhArg, t, carry) == Slice(dhArg, t)

\* The gradient handed to rnn_step_backward at a timestep.
rnn_backward_arg(dhArg, t, carry) ==
    IF t = Shape1(dhArg) - 1
      THEN Slice(dhArg, t)
      ELSE MatAdd(Slice(dhArg, t), carry)

\* rnn_backward_body with = in place of += for the weight gradients.
rnn_backward_body_overwrite(dhArg, cacheArg, t, fr) ==
    LET r == rnn_step_backward(rnn_backward_arg(dhArg, t, fr.dh0), cacheArg[t + 1])
    IN  [dx |-> Append(fr.dx, r.dx), dh0 |-> r.dprev_h,
         dWx |-> r.dWx, dWh |-> r.dWh, db |-> r.db, ret |-> r]

\* rnn_backward_body reading cache[timestep - 1] (the last entry at
\* timestep 0) in place of cache[timestep].
rnn_backward_body_offcache(dhArg, cacheArg, t, fr) ==
    LET c == cacheArg[IF t = 0 THEN Len(cacheArg) ELSE t]
        r == rnn_step_backward(rnn_backward_arg(dhArg, t, fr.dh0), c)
    IN  IF t = Shape1(dhArg) - 1
          THEN [dx |-> Append(fr.dx, r.dx), dh0 |-> r.dprev_h,
                dWx |-> r.dWx, dWh |-> r.dWh, db |-> r.db, ret |-> r]
          ELSE [dx |-> Append(fr.dx, r.dx), dh0 |-> r.dprev_h,
                dWx |-> MatAdd(fr.dWx, r.dWx), dWh |-> MatAdd(fr.dWh, r.dWh),
                db |-> VecAdd(fr.db, r.db), ret |-> r]

\* One iteration of rnn_backward's loop, cache[timestep] being in range.
rnn_backward_body(dhArg, cacheArg, t, fr) ==
    LET r == rnn_step_backward(rnn_backward_arg(dhArg, t, fr.dh0), cacheArg[t + 1])
    IN  IF t = Shape1(dhArg) - 1
          THEN [dx |-> Append(fr.dx, r.dx), dh0 |-> r.dprev_h,
                dWx |-> r.dWx, dWh |-> r.dWh, db |-> r.db, ret |-> r]
          ELSE [dx |-> Append(fr.dx, r.dx), dh0 |-> r.dprev_h,
                dWx |-> MatAdd(fr.dWx, r.dWx), dWh |-> MatAdd(fr.dWh, r.dWh),
                db |-> VecAdd(fr.db, r.db), ret |-> r]

BackwardStep ==
    /\ pc = "backward"
    /\ timestep >= 0
    /\ IF timestep + 1 > Len(cache)
         THEN \* cache[timestep]: list index out of range
              /\ pc' = "error" /\ err' = "IndexError"
              /\ UNCHANGED <<timestep, dx, dh0, dWx, dWh, db, calls>>
         ELSE LET fr == [dx |-> dx, dh0 |-> dh0, dWx |-> dWx, dWh |-> dWh,
                         db |-> db]
                  n == rnn_backward_body(dh, cache, timestep, fr)
              IN  /\ dx' = n.dx /\ dh0' = n.dh0 /\ dWx' = n.dWx
                  /\ dWh' = n.dWh /\ db' = n.db
                  /\ calls' = Append(calls,
                        [t |-> timestep,
                         dnext_h |-> rnn_backward_arg(dh, timestep, dh0),
                         ret |-> n.ret])
                  /\ timestep' = timestep - 1
                  /\ UNCHANGED <<pc, err>>
    /\ UNCHANGED <<x, h0, Wx, Wh, b, prev_h, h, cache, dh>>
    /\ UNCHANGED <<avgVars, affVars>>

\* rnn_backward_ret without dx.reverse().
rnn_backward_ret_noreverse(l) == IF l = <<>> THEN Unbound ELSE Transpose102(l)

\* The end of rnn_backward: dx.reverse(), then np.transpose(dx, [1,0,2]).
rnn_backward_ret(l) == IF l = <<>> THEN Unbound ELSE Transpose102(Reverse(l))

BackwardReturn ==
    /\ pc = "backward"
    /\ timestep = -1
    /\ IF dx = <<>>
         THEN pc' = "error" /\ err' = "ValueError" /\ dx' = dx
         ELSE pc' = "backward_done" /\ err' = err /\ dx' = rnn_backward_ret(dx)
    /\ UNCHANGED <<x, h0, Wx, Wh, b, timestep, prev_h, h, cache, dh,
                   dh0, dWx, dWh, db, calls>>
    /\ UNCHANGED <<avgVars, affVars>>

Next == ForwardStep \/ ForwardReturn \/ BackwardCall \/ BackwardStep \/ BackwardReturn

Spec == InitRnn /\ [][Next]_vars

\* ------------------------------------------------------------- claims: RNN
IsZero(A) == \A i \in 1..Len(A) : \A j \in 1..Len(A[i]) : A[i][j] = 0

\* The gradient that backpropagation through time defines for timestep t
\* (0-based) of a backward pass over dh and cache: dh[:,t,:] plus what the
\* step at t+1 sends back, nothing at the last timestep.
RECURSIVE RefGrad(_)
RefGrad(t) ==
    IF t = Shape1(dh) - 1
      THEN Slice(dh, t)
      ELSE MatAdd(Slice(dh, t),
                  rnn_step_backward(RefGrad(t + 1), cache[t + 2]).dprev_h)

\* What rnn_step_backward returns for timestep t under that recurrence.
RefStep(t) == rnn_step_backward(RefGrad(t), cache[t + 1])

RECURSIVE SumMat(_, _)
SumMat(f, n) == IF n = 1 THEN f[1] ELSE MatAdd(SumMat(f, n - 1), f[n])

RECURSIVE SumVec(_, _)
SumVec(f, n) == IF n = 1 THEN f[1] ELSE VecAdd(SumVec(f, n - 1), f[n])

InBackward == pc \in {"backward", "backward_done"}

\* C1: rnn_backward makes its rnn_step_backward calls for the timesteps
\* T-1, T-2, ..., 0 in that order; the gradient handed to the call for
\* timestep t is dh[:,t,:] plus the dprev_h the call for t+1 returned, and
\* dh[:,T-1,:] alone at the last timestep; the returned dh0 is the dprev_h
\* of the call for timestep 0.
C1_ReverseOrderRecurrence ==
    InBackward =>
        /\ \A j \in 1..Len(calls) :
              /\ calls[j].t = Shape1(dh) - j
              /\ calls[j].dnext_h =
                    IF j = 1
                      THEN Slice(dh, calls[j].t)
                      ELSE MatAdd(Slice(dh, calls[j].t), calls[j - 1].ret.dprev_h)
              /\ calls[j].ret = rnn_step_backward(calls[j].dnext_h, cache[calls[j].t + 1])
        /\ pc = "backward" => Len(calls) = Shape1(dh) - 1 - timestep
        /\ pc = "backward_done" =>
              /\ Len(calls) = Shape1(dh)
              /\ calls[Len(calls)].t = 0
              /\ dh0 = calls[Len(calls)].ret.dprev_h

\* A backward pass over at least two timesteps has returned, and the step
\* at the last timestep sent a nonzero gradient back to the one before it.
C1_Witness ==
    /\ pc = "backward_done"
    /\ Shape1(dh) >= 2
    /\ ~IsZero(calls[1].ret.dprev_h)
    /\ ~IsZero(dh0)

\* C2: the dWx, dWh and db rnn_backward returns are the sums over all
\* timesteps 0..T-1 of the dWx, dWh and db of the step at each timestep.
C2_WeightGradientsSummed ==
    pc = "backward_done" =>
        LET T == Shape1(dh)
        IN  /\ dWx = SumMat([k \in 1..T |-> RefStep(k - 1).dWx], T)
            /\ dWh = SumMat([k \in 1..T |-> RefStep(k - 1).dWh], T)
            /\ db = SumVec([k \in 1..T |-> RefStep(k - 1).db], T)

\* A backward pass has returned in which the last timestep and an earlier
\* one both contribute a nonzero dWx, dWh and db.
C2_Witness ==
    /\ pc = "backward_done"
    /\ Shape1(dh) >= 2
    /\ ~IsZero(RefStep(Shape1(dh) - 1).dWx) /\ ~IsZero(RefStep(0).dWx)
    /\ ~IsZero(RefStep(Shape1(dh) - 1).dWh) /\ ~IsZero(RefStep(0).dWh)
    /\ RefStep(Shape1(dh) - 1).db[1] # 0 /\ RefStep(0).db[1] # 0

\* C3: rnn_forward runs rnn_step_forward for timesteps 0, 1, ... in
\* increasing order: after k iterations the lists hold the steps 0..k-1,
\* step 0 starts from h0 and step t > 0 from the next_h of step t-1, the
\* list entries are the step's cache and next_h; the returned h has
\* h[:,t,:] = next_h of step t and the cache list has T entries.
C3_ForwardThreadsHiddenState ==
    /\ pc = "forward" => Len(cache) = timestep /\ Len(h) = timestep
    /\ pc # "error" =>
          \A k \in 1..Len(cache) :
              /\ cache[k].prev_h = IF k = 1 THEN h0 ELSE cache[k - 1].next_h
              /\ cache[k] = rnn_step_forward(Slice(x, k - 1), cache[k].prev_h,
                                             Wx, Wh, b).cache
              /\ pc = "forward" => h[k] = cache[k].next_h
    /\ pc \in {"forward_done", "backward", "backward_done"} =>
          /\ Len(cache) = Shape1(x)
          /\ Len(h) = NN
          /\ \A i \in 1..NN :
                /\ Len(h[i]) = Shape1(x)
                /\ \A k \in 1..Shape1(x) : h[i][k] = cache[k].next_h[i]

\* rnn_forward has returned over at least two timesteps, the hidden state
\* moved away from h0, and the two batch rows differ.
C3_Witness ==
    /\ pc = "forward_done"
    /\ Shape1(x) >= 2
    /\ cache[2].prev_h # h0
    /\ cache[2].next_h # cache[1].next_h
    /\ h[1] # h[2]

\* C4: rnn_backward never returns gradients when the number of cache
\* entries differs from the timestep count of dh.
C4_MismatchedCacheRejected ==
    pc = "backward_done" => Len(cache) = Shape1(dh)

\* C9: the returned dx has T time slices and dx[:,t,:] is the dx of the
\* step made for timestep t.
C9_DxInTimeOrder ==
    pc = "backward_done" =>
        /\ Len(dx) = NN
        /\ \A i \in 1..NN :
              /\ Len(dx[i]) = Shape1(dh)
              /\ \A k \in 1..Shape1(dh) : dx[i][k] = RefStep(k - 1).dx[i]

\* A backward pass has returned whose per-timestep dx differ, so that the
\* order of the time slices shows.
C9_Witness ==
    /\ pc = "backward_done"
    /\ Shape1(dh) >= 2
    /\ RefStep(0).dx # RefStep(Shape1(dh) - 1).dx
    /\ ~IsZero(RefStep(0).dx)
    /\ ~IsZero(RefStep(Shape1(dh) - 1).dx)

\* dh is zero at every timestep but k (0-based).
SeededAt(k) ==
    /\ k \in 0..(Shape1(dh) - 1)
    /\ \A t \in 0..(Shape1(dh) - 1) : t # k => IsZero(Slice(dh, t))

\* C10: when dh is a seed gradient g at one timestep k and zero elsewhere,
\* the step rnn_backward makes for timestep k is handed g and returns what
\* rnn_step_backward(g, cache[k]) returns; the steps after k return zero
\* gradients; dx[:,k,:] is the isolated step's dx; and for k = 0 the
\* returned dh0, dWx, dWh and db are the isolated step's.
C10_SeededMatchesIsolatedStep ==
    pc = "backward_done" =>
        \A k \in 0..(Shape1(dh) - 1) :
            SeededAt(k) =>
                LET iso == rnn_step_backward(Slice(dh, k), cache[k + 1])
                    T == Shape1(dh)
                IN  /\ calls[T - k].t = k
                    /\ calls[T - k].dnext_h = Slice(dh, k)
                    /\ calls[T - k].ret = iso
                    /\ Slice(dx, k) = iso.dx
                    /\ \A t \in (k + 1)..(T - 1) :
                          /\ IsZero(Slice(dx, t))
                          /\ IsZero(calls[T - t].ret.dWx)
                          /\ IsZero(calls[T - t].ret.dWh)
                          /\ IsZero(calls[T - t].ret.dprev_h)
                          /\ calls[T - t].ret.db[1] = 0
                    /\ k = 0 =>
                          /\ dh0 = iso.dprev_h
                          /\ dWx = iso.dWx
                          /\ dWh = iso.dWh
                          /\ db = iso.db

\* A forward pass and a backward pass over the same two or more timesteps
\* have run with a nonzero seed before the last timestep, and the isolated
\* step has nonzero gradients.
C10_Witness ==
    /\ pc = "backward_done"
    /\ Shape1(dh) >= 2
    /\ Shape1(dh) = Shape1(x)
    /\ SeededAt(0)
    /\ ~IsZero(Slice(dh, 0))
    /\ ~IsZero(dx[1]) /\ ~IsZero(dWx) /\ ~IsZero(dWh) /\ ~IsZero(dh0)

\* ------------------------------------------------------------- true division
RECURSIVE GCD(_, _)
GCD(m, n) == IF n = 0 THEN m ELSE GCD(n, m % n)

Abs(n) == IF n < 0 THEN -n ELSE n

Sign(n) == IF n > 0 THEN 1 ELSE IF n < 0 THEN -1 ELSE 0

\* n / c of two numbers under numpy's true division.  A quotient is the
\* fraction <<p, q>> in lowest terms with q > 0.  Division by zero raises
\* nothing in numpy (it warns): 0/0 is nan, <<0, 0>>, and n/0 is an
\* infinity with the sign of n, <<1, 0>> or <<-1, 0>>.
TrueDiv(n, c) ==
    IF c = 0
      THEN <<Sign(n), 0>>
      ELSE LET g == GCD(Abs(n), Abs(c))
           IN  <<Sign(c) * (n \div g), Abs(c) \div g>>

\* ------------------------------------------------------------- average layer
\* Values the average layer's inputs are drawn from.
HiVals == {-1, 0, 2}
MaskVals == {0, 1}
DhoVals == {-1, 2}

\* np.sum(m, axis = 1) of a matrix.
SumAxis1(m) == [i \in 1..Len(m) |-> SumTo(m[i], Len(m[i]))]

\* np.dot of a vector (T,) and a matrix (T,K) with T >= 1.
VecDot(v, A) ==
    [k \in 1..Len(A[1]) |-> SumTo([t \in 1..Len(v) |-> v[t] * A[t][k]], Len(v))]

\* average_forward dividing by the number of timesteps T.
average_forward_byT(hiArg, maskArg) ==
    LET count == SumAxis1(maskArg)
    IN  [ho |-> [i \in 1..Len(hiArg) |->
                    LET num == VecDot(maskArg[i], hiArg[i])
                    IN  [k \in 1..Len(num) |-> TrueDiv(num[k], Len(hiArg[i]))]],
         cache |-> [mask |-> maskArg, count |-> count]]

average_forward(hiArg, maskArg) ==
    LET count == SumAxis1(maskArg)
    IN  [ho |-> [i \in 1..Len(hiArg) |->
                    LET num == VecDot(maskArg[i], hiArg[i])
                    IN  [k \in 1..Len(num) |-> TrueDiv(num[k], count[i])]],
         cache |-> [mask |-> maskArg, count |-> count]]

\* average_backward without the mask factor.
average_backward_nomask(dhoArg, c) ==
    [i \in 1..Len(dhoArg) |->
        [j \in 1..Len(c.mask[1]) |->
            [k \in 1..Len(dhoArg[i]) |-> TrueDiv(dhoArg[i][k], c.count[i])]]]

average_backward(dhoArg, c) ==
    [i \in 1..Len(dhoArg) |->
        [j \in 1..Len(c.mask[1]) |->
            [k \in 1..Len(dhoArg[i]) |->
                TrueDiv(dhoArg[i][k] * c.mask[i][j], c.count[i])]]]

InitAvg ==
    /\ apc = "start"
    /\ \E T \in 1..MaxT :
          /\ hi \in Tensor(NN, T, Cardinality(Hid), HiVals)
          /\ mask \in Matrix(NN, T, MaskVals)
    /\ ho = Unbound /\ avgCache = Unbound /\ dho = Unbound /\ dhi = Unbound
    /\ IdleRnn /\ IdleAff

AverageForward ==
    /\ apc = "start"
    /\ LET r == average_forward(hi, mask)
       IN  ho' = r.ho /\ avgCache' = r.cache
    /\ apc' = "forward_done"
    /\ UNCHANGED <<hi, mask, dho, dhi>>
    /\ UNCHANGED <<rnnVars, affVars>>

AverageBackward ==
    /\ apc = "forward_done"
    /\ dho' \in Matrix(NN, Cardinality(Hid), DhoVals)
    /\ dhi' = average_backward(dho', avgCache)
    /\ apc' = "backward_done"
    /\ UNCHANGED <<hi, mask, ho, avgCache>>
    /\ UNCHANGED <<rnnVars, affVars>>

NextAvg == AverageForward \/ AverageBackward

SpecAvg == InitAvg /\ [][NextAvg]_vars

\* ------------------------------------------------------------- claims: average
\* The number of valid timesteps of sample i.
MaskCount(i) == SumTo(mask[i], Len(mask[i]))

\* The mask-weighted sum of component k of sample i over time.
RECURSIVE MaskedSum(_, _, _)
MaskedSum(i, k, t) ==
    IF t = 0 THEN 0 ELSE MaskedSum(i, k, t - 1) + mask[i][t] * hi[i][t][k]

\* The plain sum of component k of sample i over time.
RECURSIVE PlainSum(_, _, _)
PlainSum(i, k, t) == IF t = 0 THEN 0 ELSE PlainSum(i, k, t - 1) + hi[i][t][k]

AllCountsNonzero == \A i \in 1..NN : MaskCount(i) # 0

\* C5: average_forward returns no output when some sample has count 0.
C5_ZeroCountFails ==
    apc \in {"forward_done", "backward_done"} => AllCountsNonzero

C7_ForwardDividesByCount ==
    (apc \in {"forward_done", "backward_done"} /\ AllCountsNonzero) =>
        /\ Len(ho) = NN
        /\ \A i \in 1..NN :
              LET T == Len(hi[i])
              IN  /\ Len(ho[i]) = Len(hi[i][1])
                  /\ \A k \in 1..Len(hi[i][1]) :
                        /\ ho[i][k] = TrueDiv(MaskedSum(i, k, T), MaskCount(i))
                        /\ (\A t \in 1..T : mask[i][t] = 1) =>
                              ho[i][k] = TrueDiv(PlainSum(i, k, T), T)
                        /\ (mask[i][1] = 1 /\ \A t \in 2..T : mask[i][t] = 0) =>
                              ho[i][k] = <<hi[i][1][k], 1>>

\* average_forward has run on a batch with a sample valid at timestep 0
\* only, whose average differs from its mean over T, and a sample with an
\* all-ones mask whose mean is not a whole number.
C7_Witness ==
    /\ apc = "forward_done"
    /\ AllCountsNonzero
    /\ Len(hi[1]) >= 2
    /\ mask[1][1] = 1 /\ \A t \in 2..Len(mask[1]) : mask[1][t] = 0
    /\ ho[1][1] # TrueDiv(PlainSum(1, 1, Len(hi[1])), Len(hi[1]))
    /\ \A t \in 1..Len(mask[2]) : mask[2][t] = 1
    /\ ho[2][1][2] # 1

\* ------------------------------------------------------------- temporal affine
\* Index sets of the affine layer's input axis (D) and output axis (M).
AffD == {1, 2}
AffM == {1}
\* Rows x[i,t] and values the affine layer's inputs are drawn from.
XRows == {<<1, 0>>, <<0, 1>>, <<1, 1>>}
WAffVals == {1, 2}
BAffVals == {0}
DoutVals == {-1, 1}

\* a.reshape(N * T, K) of an (N,T,K) tensor: row i*T + t is a[i,t].
Reshape2(a) ==
    LET T == Len(a[1])
    IN  [r \in 1..(Len(a) * T) |-> a[((r - 1) \div T) + 1][((r - 1) % T) + 1]]

\* a.transpose(1,0,2).reshape(N * T, K): row t*N + i is a[i,t].
Reshape2_timeMajor(a) ==
    LET N == Len(a)
    IN  [r \in 1..(N * Len(a[1])) |-> a[((r - 1) % N) + 1][((r - 1) \div N) + 1]]

\* m.reshape(N, T, K) of an (N*T,K) matrix.
Reshape3(m, N, T) ==
    [i \in 1..N |-> [t \in 1..T |-> m[(i - 1) * T + t]]]

temporal_affine_forward(xArg, w, bias) ==
    LET N == Len(xArg)
        T == Len(xArg[1])
        lin == Reshape3(Dot(Reshape2(xArg), w), N, T)
        out == [i \in 1..N |-> AddBias(lin[i], bias)]
    IN  [out |-> out, cache |-> [x |-> xArg, w |-> w, b |-> bias, out |-> out]]

\* dout.reshape(N * T, M) in temporal_affine_backward.
FlattenDout(dout) == Reshape2(dout)

temporal_affine_backward(dout, c) ==
    LET N == Len(c.x)
        T == Len(c.x[1])
        flat == FlattenDout(dout)
    IN  [dx |-> Reshape3(Dot(flat, Transpose(c.w)), N, T),
         dw |-> Transpose(Dot(Transpose(flat), Reshape2(c.x))),
         db |-> SumAxis0(Reshape2(dout))]

InitAff ==
    /\ tpc = "start"
    /\ \E T \in 1..MaxT : ta_x \in [1..NN -> [1..T -> XRows]]
    /\ ta_w \in Matrix(Cardinality(AffD), Cardinality(AffM), WAffVals)
    /\ ta_b \in [1..Cardinality(AffM) -> BAffVals]
    /\ ta_out = Unbound /\ ta_cache = Unbound /\ ta_dout = Unbound
    /\ ta_dx = Unbound /\ ta_dw = Unbound /\ ta_db = Unbound
    /\ IdleRnn /\ IdleAvg

TemporalAffineForward ==
    /\ tpc = "start"
    /\ LET r == temporal_affine_forward(ta_x, ta_w, ta_b)
       IN  ta_out' = r.out /\ ta_cache' = r.cache
    /\ tpc' = "forward_done"
    /\ UNCHANGED <<ta_x, ta_w, ta_b, ta_dout, ta_dx, ta_dw, ta_db>>
    /\ UNCHANGED <<rnnVars, avgVars>>

TemporalAffineBackward ==
    /\ tpc = "forward_done"
    /\ ta_dout' \in Tensor(NN, Len(ta_x[1]), Cardinality(AffM), DoutVals)
    /\ LET r == temporal_affine_backward(ta_dout', ta_cache)
       IN  ta_dx' = r.dx /\ ta_dw' = r.dw /\ ta_db' = r.db
    /\ tpc' = "backward_done"
    /\ UNCHANGED <<ta_x, ta_w, ta_b, ta_out, ta_cache>>
    /\ UNCHANGED <<rnnVars, avgVars>>

NextAff == TemporalAffineForward \/ TemporalAffineBackward

SpecAff == InitAff /\ [][NextAff]_vars

\* ------------------------------------------------------------- claims: affine
\* The sum over t' in 1..t of x[i,t',d] * dout[i,t',m].
RECURSIVE OuterOverTime(_, _, _, _)
OuterOverTime(i, d, m, t) ==
    IF t = 0 THEN 0
    ELSE OuterOverTime(i, d, m, t - 1) + ta_x[i][t][d] * ta_dout[i][t][m]

\* The sum over i' in 1..i and all t of x[i',t,d] * dout[i',t,m].
RECURSIVE OuterOverBatch(_, _, _)
OuterOverBatch(d, m, i) ==
    IF i = 0 THEN 0
    ELSE OuterOverBatch(d, m, i - 1) + OuterOverTime(i, d, m, Len(ta_x[i]))

\* C8: temporal_affine_backward returns dw of shape (D,M) with dw[d,m] the
\* sum over all samples i and timesteps t of x[i,t,d] * dout[i,t,m].
C8_DwSumsOuterProducts ==
    tpc = "backward_done" =>
        /\ Len(ta_dw) = Cardinality(AffD)
        /\ \A d \in 1..Cardinality(AffD) :
              /\ Len(ta_dw[d]) = Cardinality(AffM)
              /\ \A m \in 1..Cardinality(AffM) :
                    ta_dw[d][m] = OuterOverBatch(d, m, NN)

\* temporal_affine_backward has run over two or more timesteps on inputs
\* whose rows differ between samples and between timesteps, with a dw that
\* differs between its two rows.
C8_Witness ==
    /\ tpc = "backward_done"
    /\ Len(ta_x[1]) >= 2
    /\ ta_x[1][1] # ta_x[1][2]
    /\ ta_x[1][2] # ta_x[2][1]
    /\ ta_dout[1][2] # ta_dout[2][1]
    /\ ta_dw[1] # ta_dw[2]
    /\ ta_dw[1][1] # 0

====
